---- MODULE Spec2Model ----
(***************************************************************************)
(* Model of the attention pipeline of NLPix-Hub:                           *)
(*   NLPProcessor._generate_mock_attention      (src/nlp_services.py)      *)
(*   AttentionVisualizer.generate_attention_heatmap                        *)
(*   AttentionVisualizer._calculate_token_importance                       *)
(*   AttentionVisualizer.analyze_attention_patterns (src/attention_utils.py)*)
(*                                                                         *)
(* Python lists are objects with identity: the heap maps an object id to   *)
(* the list stored there.  A matrix is an outer list of row ids, a row is  *)
(* a list of cells.  Cells are fixed-point numbers in thousandths (1.0 is  *)
(* One); quotients of cells are kept as exact fractions [num, den].        *)
(* Python indices are 0-based, sequence positions here are 1-based; the    *)
(* 'index' fields of records keep the 0-based Python value.                *)
(***************************************************************************)
EXTENDS Integers, Sequences, FiniteSets, TLC

\* ---------------------------------------------------------------- bounds
MaxRows == 2        \* rows of a caller-supplied matrix
MaxCols == 2        \* cells of a row of a caller-supplied matrix
MaxVal == 1         \* largest cell of a caller-supplied matrix
MaxCells == 4       \* cells of a caller-supplied matrix, all rows together
MaxTextLen == 3     \* characters of an enumerated text
MaxTokens == 25     \* words of the longest generated text
MaxSeed == 2        \* seeds of the random source

\* ------------------------------------------------------ program constants
One == 1000         \* the float 1.0 in thousandths
CAP == 20           \* size cap of the mock generator

\* --------------------------------------------------------------- helpers
Min(a, b) == IF a < b THEN a ELSE b

Max(a, b) == IF a > b THEN a ELSE b

Range(s) == {s[i] : i \in 1..Len(s)}

RECURSIVE SumSeq(_)
\* Python sum(list); the list is halved to keep the evaluation shallow
SumSeq(s) ==
    IF Len(s) = 0 THEN 0
    ELSE IF Len(s) = 1 THEN s[1]
    ELSE LET h == Len(s) \div 2
         IN  SumSeq(SubSeq(s, 1, h)) + SumSeq(SubSeq(s, h + 1, Len(s)))

RECURSIVE MaxSeq(_)
\* Python max(list), list non-empty
MaxSeq(s) ==
    IF Len(s) = 1 THEN s[1]
    ELSE LET h == Len(s) \div 2
         IN  Max(MaxSeq(SubSeq(s, 1, h)), MaxSeq(SubSeq(s, h + 1, Len(s))))

RECURSIVE MinSeq(_)
\* Python min(list), list non-empty
MinSeq(s) ==
    IF Len(s) = 1 THEN s[1]
    ELSE LET h == Len(s) \div 2
         IN  Min(MinSeq(SubSeq(s, 1, h)), MinSeq(SubSeq(s, h + 1, Len(s))))

RECURSIVE Flatten(_)
\* [weight for row in m for weight in row]
Flatten(m) == IF m = <<>> THEN <<>> ELSE m[1] \o Flatten(Tail(m))

\* s[:n]
Take(s, n) == SubSeq(s, 1, Min(n, Len(s)))

\* [0.0] * n
Zeros(n) == [k \in 1..n |-> 0]

\* all sequences over S of length at most n
SeqsUpTo(S, n) == UNION {[1..k -> S] : k \in 0..n}

\* outcome of a Python call: a returned value, or an exception leaving it
Ok(v) == [exc |-> "", val |-> v]

Raise(e) == [exc |-> e, val |-> <<>>]

RECURSIVE GCD(_, _)
GCD(a, b) == IF b = 0 THEN a ELSE GCD(b, a % b)

\* the exact quotient a / b (a >= 0, b > 0) in lowest terms
Frac(a, b) == LET g == GCD(a, b) IN [num |-> a \div g, den |-> b \div g]

FracLess(x, y) == x.num * y.den < y.num * x.den

\* ------------------------------------------------------------- str.split
WS == " "

IsSpace(c) == c = WS

RECURSIVE SplitFrom(_, _, _)
\* scan s; cur is the word being read, acc the words already closed
SplitFrom(s, cur, acc) ==
    IF s = <<>>
    THEN IF cur = <<>> THEN acc ELSE Append(acc, cur)
    ELSE IF IsSpace(Head(s))
         THEN SplitFrom(Tail(s), <<>>, IF cur = <<>> THEN acc ELSE Append(acc, cur))
         ELSE SplitFrom(Tail(s), Append(cur, Head(s)), acc)

\* text.split(): maximal runs of non-whitespace characters, in order
Split(s) == SplitFrom(s, <<>>, <<>>)

Letters ==
    <<"a", "b", "c", "d", "e", "f", "g", "h", "i", "j", "k", "l", "m",
      "n", "o", "p", "q", "r", "s", "t", "u", "v", "w", "x", "y", "z">>

\* the k-th word of a generated text: one letter, distinct for 26 words
Word(k) == <<Letters[((k - 1) % Len(Letters)) + 1]>>

RECURSIVE WordsText(_)
\* the text "a b c ..." of k one-letter words
WordsText(k) ==
    IF k = 0 THEN <<>>
    ELSE IF k = 1 THEN Word(1)
    ELSE WordsText(k - 1) \o <<WS>> \o Word(k)

\* ------------------------------------------------------------------ state
VARIABLES
    text,     \* the request's text, a sequence of characters
    heap,     \* list objects: heap[id] is the list stored in object id
    matrix,   \* id of the caller's matrix object, 0 while there is none
    pc,       \* "start", "generated", "heatmap" or "done"
    op,       \* the operation called last
    arg,      \* arguments of the operation called last: [aw, tokens]
    before,   \* the heap as it was when the operation called last was entered
    ret,      \* outcome of the operation called last
    tasks,    \* the NLPTask table, one record per row, row id = position
    metrics,  \* the ModelMetrics table, one record per row, row id = position
    response, \* the response of the request handled last
    workers,  \* the requests that are inside update_model_metrics
    updates,  \* per key, how many update_model_metrics calls committed and
              \* the sum of their processing times
    raced     \* the keys for which a call committed on a row state that
              \* another call had replaced since it was read

\* the state of the visualizer calls
corevars == <<text, heap, matrix, pc, op, arg, before, ret>>

\* the state of the database and of the requests
dbvars == <<tasks, metrics, response, workers, updates, raced>>

vars == <<text, heap, matrix, pc, op, arg, before, ret,
          tasks, metrics, response, workers, updates, raced>>

\* the matrix stored at object id ref, as a list of rows
Deref(h, ref) == [i \in 1..Len(h[ref]) |-> h[h[ref][i]]]

\* a heap holding only the matrix m: the outer list is object 1, row i object i+1
HeapOf(m) == <<[i \in 1..Len(m) |-> i + 1]>> \o m

\* -------------------------------------------- _calculate_token_importance
\* attention_matrix[j][i] is evaluated for every j, i in range(n_tokens)
ImportanceIndexOK(m) ==
    \A j \in 1..Len(m) : \A i \in 1..Len(m) : i <= Len(m[j])

\* mutant: the row is summed where the column is meant
ColumnSumTransposed(m, i) == SumSeq(m[i])

\* sum(attention_matrix[j][i] for j in range(n_tokens))
ColumnSum(m, i) == SumSeq([j \in 1..Len(m) |-> m[j][i]])

\* mutant: incoming totals normalized by the largest outgoing total
MaxIncomingFromRows(m) == MaxSeq([j \in 1..Len(m) |-> SumSeq(m[j])])

\* max(sum(attention_matrix[j][k] for j ...) for k in range(n_tokens))
MaxIncoming(m) == MaxSeq([k \in 1..Len(m) |-> ColumnSum(m, k)])

\* max(sum(row) for row in attention_matrix)
MaxOutgoing(m) == MaxSeq([j \in 1..Len(m) |-> SumSeq(m[j])])

\* x / mx if mx > 0 else 0
Normalized(x, mx) == IF mx > 0 THEN Frac(x, mx) ELSE Frac(0, 1)

\* (a + b) / 2
Combined(a, b) == Frac(a.num * b.den + b.num * a.den, 2 * a.den * b.den)

\* mutant: the entry carries the 1-based position
TokenScoreOneBased(m, i) ==
    LET incoming == Normalized(ColumnSum(m, i), MaxIncoming(m))
        outgoing == Normalized(SumSeq(m[i]), MaxOutgoing(m))
    IN  [index |-> i,
         importance |-> Combined(incoming, outgoing),
         incoming_attention |-> incoming,
         outgoing_attention |-> outgoing]

\* one pass of the loop body, for the 1-based position i
TokenScore(m, i) ==
    LET incoming == Normalized(ColumnSum(m, i), MaxIncoming(m))
        outgoing == Normalized(SumSeq(m[i]), MaxOutgoing(m))
    IN  [index |-> i - 1,
         importance |-> Combined(incoming, outgoing),
         incoming_attention |-> incoming,
         outgoing_attention |-> outgoing]

\* the try block: an IndexError leaves it when a row is too short
ImportanceBody(m) ==
    IF m = <<>> THEN Ok(<<>>)
    ELSE IF ~ImportanceIndexOK(m) THEN Raise("IndexError")
    ELSE Ok([i \in 1..Len(m) |-> TokenScore(m, i)])

\* except Exception: log and return []
calculate_token_importance(m) ==
    LET r == ImportanceBody(m)
    IN  IF r.exc # "" THEN Ok(<<>>) ELSE r

\* ---------------------------------------------- generate_attention_heatmap
\* mutant: the slices stop one short
TruncateOneShort(h, aw, n) ==
    LET o == Len(h) + 1
        outer == [i \in 1..(n - 1) |-> o + i]
        rows == [i \in 1..(n - 1) |-> Take(h[h[aw][i]], n - 1)]
    IN  [heap |-> h \o <<outer>> \o rows, ref |-> o]

\* len(attention_weights) > len(tokens): a new outer list of new, sliced rows
Truncate(h, aw, n) ==
    LET o == Len(h) + 1
        outer == [i \in 1..n |-> o + i]
        rows == [i \in 1..n |-> Take(h[h[aw][i]], n)]
    IN  [heap |-> h \o <<outer>> \o rows, ref |-> o]

\* mutant: the padded matrix is a new list of new rows
PadIntoCopy(h, aw, n) ==
    LET o == Len(h) + 1
        rows == Deref(h, aw) \o [k \in 1..(n - Len(h[aw])) |-> <<>>]
        outer == [i \in 1..n |-> o + i]
    IN  [heap |-> h \o <<outer>> \o
                  [i \in 1..n |->
                      IF Len(rows[i]) < n
                      THEN rows[i] \o [k \in 1..(n - Len(rows[i])) |-> 0]
                      ELSE rows[i]],
         ref |-> o]

\* the while loop appending 0.0 until the row has n cells
PadRow(row, n) == IF Len(row) < n THEN row \o Zeros(n - Len(row)) ELSE row

\* len(attention_weights) < len(tokens): rows appended to the list passed in,
\* and every row of it extended in place
Pad(h, aw, n) ==
    LET pad_size == n - Len(h[aw])
        newids == [k \in 1..pad_size |-> Len(h) + k]
        outer == h[aw] \o newids
        h1 == [(h \o [k \in 1..pad_size |-> Zeros(n)]) EXCEPT ![aw] = outer]
    IN  [heap |-> [k \in 1..Len(h1) |->
                      IF k \in Range(outer) THEN PadRow(h1[k], n) ELSE h1[k]],
         ref |-> aw]

\* lines 19-33: the dimensions are touched only when the row count differs
Reconcile(h, aw, n) ==
    IF Len(h[aw]) # n
    THEN IF Len(h[aw]) > n THEN Truncate(h, aw, n) ELSE Pad(h, aw, n)
    ELSE [heap |-> h, ref |-> aw]

\* lines 35-54 on the reconciled matrix
HeatmapRecord(tokens, r) ==
    LET m == Deref(r.heap, r.ref)
        flat_weights == Flatten(m)
        scores == calculate_token_importance(m)
    IN  IF scores.exc # "" THEN scores
        ELSE Ok([tokens |-> tokens,
                 attention_matrix |-> r.ref,
                 max_attention |-> IF flat_weights # <<>> THEN MaxSeq(flat_weights) ELSE One,
                 min_attention |-> IF flat_weights # <<>> THEN MinSeq(flat_weights) ELSE 0,
                 avg_attention |-> IF flat_weights # <<>>
                                   THEN Frac(SumSeq(flat_weights), Len(flat_weights))
                                   ELSE Frac(0, 1),
                 token_importance |-> scores.val])

\* the try block of generate_attention_heatmap
HeatmapBody(h, txt, aw) ==
    IF h[aw] = <<>>
    THEN [heap |-> h, out |-> Ok([error |-> <<"No attention weights provided">>])]
    ELSE LET tokens == Split(txt)
             r == Reconcile(h, aw, Len(tokens))
         IN  [heap |-> r.heap, out |-> HeatmapRecord(tokens, r)]

\* except Exception: log and return an error record
generate_attention_heatmap(h, txt, aw) ==
    LET b == HeatmapBody(h, txt, aw)
    IN  IF b.out.exc # ""
        THEN [heap |-> b.heap,
              out |-> Ok([error |-> <<"Failed to generate heatmap: ", b.out.exc>>])]
        ELSE b

\* ---------------------------------------------- analyze_attention_patterns
RECURSIVE InsertDesc(_, _, _)
\* place index i behind every index whose key is not smaller (stable)
InsertDesc(sorted, i, keys) ==
    IF sorted = <<>> THEN <<i>>
    ELSE IF keys[Head(sorted)] >= keys[i]
         THEN <<Head(sorted)>> \o InsertDesc(Tail(sorted), i, keys)
         ELSE <<i>> \o sorted

RECURSIVE SortFrom(_, _, _)
SortFrom(sorted, i, keys) ==
    IF i > Len(keys) THEN sorted
    ELSE SortFrom(InsertDesc(sorted, i, keys), i + 1, keys)

\* mutant: the sorted indices come back in the opposite order
SortedReversed(keys) ==
    LET s == SortFrom(<<>>, 1, keys)
    IN  [k \in 1..Len(s) |-> s[Len(s) + 1 - k]]

\* sorted(range(len(keys)), key=lambda i: keys[i], reverse=True), 1-based
SortedDesc(keys) == SortFrom(<<>>, 1, keys)

\* mutant: four indices are taken
TopIndicesFour(keys, tokens) ==
    SelectSeq(Take(SortedDesc(keys), 4), LAMBDA i : i <= Len(tokens))

\* the indices kept by: for i in indices[:3] if i < len(tokens)   (1-based)
TopIndices(keys, tokens) ==
    SelectSeq(Take(SortedDesc(keys), 3), LAMBDA i : i <= Len(tokens))

\* [{'token': tokens[i], 'score': self_attention[i]} for i in ...]
TopScores(keys, tokens) ==
    LET kept == TopIndices(keys, tokens)
    IN  [k \in 1..Len(kept) |-> [token |-> tokens[kept[k]], score |-> keys[kept[k]]]]

\* [{'token': tokens[i], 'total_attention': sums[i]} for i in ...]
TopTotals(keys, tokens) ==
    LET kept == TopIndices(keys, tokens)
    IN  [k \in 1..Len(kept) |->
            [token |-> tokens[kept[k]], total_attention |-> keys[kept[k]]]]

\* attention_matrix[i][i] for i in range(min(n_tokens, len(attention_matrix)))
SelfIndexOK(m, n_tokens) ==
    \A i \in 1..Min(n_tokens, Len(m)) : i <= Len(m[i])

\* attention_matrix[j][i] for j in range(len(attention_matrix)), i in range(n_tokens)
IncomingIndexOK(m, n_tokens) ==
    \A i \in 1..n_tokens : \A j \in 1..Len(m) : i <= Len(m[j])

RECURSIVE Log2Floor(_)
\* the largest k with 2^k <= x, for x >= 1
Log2Floor(x) == IF x < 2 THEN 0 ELSE 1 + Log2Floor(x \div 2)

RECURSIVE Pow2(_)
Pow2(k) == IF k = 0 THEN 1 ELSE 2 * Pow2(k - 1)

\* math.log(x) for an integer x >= 1, in ten-thousandths:
\* ln x = k ln 2 + 2 atanh((x - 2^k) / (x + 2^k)), the series cut after z^7
LnFixed(x) ==
    LET k == Log2Floor(x)
        z == ((x - Pow2(k)) * 10000) \div (x + Pow2(k))
        z2 == (z * z) \div 10000
        z3 == (z2 * z) \div 10000
        z5 == (z3 * z2) \div 10000
        z7 == (z5 * z2) \div 10000
    IN  k * 6931 + 2 * (z + z3 \div 3 + z5 \div 5 + z7 \div 7)

\* -p * math.log(p + 1e-10) for p = x / row_sum, 0 < x <= row_sum, in
\* ten-thousandths; the 1e-10 is below this resolution
EntropyTerm(x, row_sum) == (x * (LnFixed(row_sum) - LnFixed(x))) \div row_sum

\* lines 133-142: the entropy of one row, 0 for a row whose sum is not positive
RowEntropy(row) ==
    LET row_sum == SumSeq(row)
    IN  IF row_sum > 0
        THEN SumSeq([j \in 1..Len(row) |->
                        IF row[j] > 0 THEN EntropyTerm(row[j], row_sum) ELSE 0])
        ELSE 0

\* mutant: a row whose sum is not positive appends nothing
EntropyListSkipsZeroRows(m) ==
    LET rows == SelectSeq(m, LAMBDA row : SumSeq(row) > 0)
    IN  [i \in 1..Len(rows) |-> RowEntropy(rows[i])]

\* lines 131-142: one entropy per row
EntropyList(m) == [i \in 1..Len(m) |-> RowEntropy(m[i])]

\* lines 145-149 on a non-empty list of row entropies
Diversity(attention_entropy) ==
    [mean_entropy |-> Frac(SumSeq(attention_entropy), Len(attention_entropy)),
     max_entropy |-> MaxSeq(attention_entropy),
     min_entropy |-> MinSeq(attention_entropy)]

\* mutant: the error is returned only when both are empty
AnalyzeEmptyInputBoth(m, tokens) == m = <<>> /\ tokens = <<>>

\* not attention_matrix or not tokens
AnalyzeEmptyInput(m, tokens) == m = <<>> \/ tokens = <<>>

\* the try block of analyze_attention_patterns
AnalyzeBody(m, tokens) ==
    IF AnalyzeEmptyInput(m, tokens)
    THEN Ok([error |-> <<"No attention matrix or tokens provided">>])
    ELSE LET n_tokens == Len(tokens) IN
         IF ~SelfIndexOK(m, n_tokens) THEN Raise("IndexError")
         ELSE IF ~IncomingIndexOK(m, n_tokens) THEN Raise("IndexError")
         ELSE LET self_attention == [i \in 1..Min(n_tokens, Len(m)) |-> m[i][i]]
                  outgoing_attention == [j \in 1..Len(m) |-> SumSeq(m[j])]
                  incoming_attention ==
                      [i \in 1..n_tokens |-> SumSeq([j \in 1..Len(m) |-> m[j][i]])]
                  attention_entropy == EntropyList(m)
                  analysis ==
                      [high_self_attention |-> TopScores(self_attention, tokens),
                       most_influential |-> TopTotals(outgoing_attention, tokens),
                       most_attended |-> TopTotals(incoming_attention, tokens)]
              IN  IF attention_entropy # <<>>
                  THEN Ok([high_self_attention |-> analysis.high_self_attention,
                           most_influential |-> analysis.most_influential,
                           most_attended |-> analysis.most_attended,
                           attention_diversity |-> Diversity(attention_entropy)])
                  ELSE Ok(analysis)

\* mutant: no handler around the body
AnalyzeUnguarded(m, tokens) == AnalyzeBody(m, tokens)

\* except Exception: log and return an error record
analyze_attention_patterns(m, tokens) ==
    LET b == AnalyzeBody(m, tokens)
    IN  IF b.exc # "" THEN Ok([error |-> <<"Analysis failed: ", b.exc>>]) ELSE b

\* ------------------------------------------------ _generate_mock_attention
\* the k-th number of the random stream of a seed, as a level in 0..MaxSeed
RandomLevel(seed, k) == (seed * (k + 1)) % (MaxSeed + 1)

\* random.uniform(a, b) = a + (b - a) * random(), in thousandths
Uniform(a, b, level) == a + ((b - a) * level) \div MaxSeed

\* lines 277-285: the draw for the cell at 1-based (i, j) of an n x n matrix
Draw(i, j, n, seed) ==
    LET level == RandomLevel(seed, (i - 1) * n + j)
    IN  IF i = j THEN Uniform(300, 800, level)
        ELSE IF i - j = 1 \/ j - i = 1 THEN Uniform(200, 500, level)
        ELSE Uniform(50, 300, level)

\* x / row_sum rounded to the nearest thousandth
Quotient(x, row_sum) == (2 * x * One + row_sum) \div (2 * row_sum)

\* mutant: the row is appended as drawn
NormalizeRowNone(row) == row

\* lines 288-291
NormalizeRow(row) ==
    LET row_sum == SumSeq(row)
    IN  IF row_sum > 0 THEN [j \in 1..Len(row) |-> Quotient(row[j], row_sum)] ELSE row

\* mutant: the size cap is missing
CapWordsNone(words) == words

\* if len(words) > 20: words = words[:20]
CapWords(words) == IF Len(words) > CAP THEN Take(words, CAP) ELSE words

\* the try block of _generate_mock_attention; nothing in it can raise
MockBody(txt, seed) ==
    LET words == Split(txt) IN
    IF Len(words) = 0 THEN Ok(<<>>)
    ELSE LET n_words == Len(CapWords(words))
         IN  Ok([i \in 1..n_words |->
                    NormalizeRow([j \in 1..n_words |-> Draw(i, j, n_words, seed)])])

\* except Exception: log and return []
generate_mock_attention(txt, seed) ==
    LET b == MockBody(txt, seed)
    IN  IF b.exc # "" THEN Ok(<<>>) ELSE b

\* ----------------------------------------------------------------- inputs
Chars == {"a", WS}

\* every text of at most MaxTextLen characters
ShortTexts == SeqsUpTo(Chars, MaxTextLen)

\* texts of 0..MaxRows+1 words: fewer, as many and more tokens than rows
WordTexts == {WordsText(k) : k \in 0..(MaxRows + 1)}

\* texts around the generator's cap
LongTexts == {WordsText(k) : k \in (CAP - 1)..MaxTokens}

\* the text of the spec's scenario
CatText == <<"T", "h", "e", WS, "c", "a", "t", WS, "s", "a", "t">>

\* [[0.6,0.3,0.1],[0.2,0.5,0.3],[0.1,0.2,0.7]]
CatMatrix == <<<<600, 300, 100>>, <<200, 500, 300>>, <<100, 200, 700>>>>

\* caller-supplied matrices: rows of any lengths, the empty matrix included
Matrices ==
    {m \in SeqsUpTo(SeqsUpTo(0..MaxVal, MaxCols), MaxRows) :
        SumSeq([i \in 1..Len(m) |-> Len(m[i])]) <= MaxCells}

\* a few matrices for the texts that are enumerated character by character
SampleMatrices == {<<>>, <<<<1>>>>, <<<<1, 0>>, <<0, 1>>>>, CatMatrix}

InitInputs ==
    \/ /\ text \in WordTexts
       /\ \E m \in Matrices : heap = HeapOf(m) /\ matrix = 1
    \/ /\ text \in ShortTexts \cup LongTexts \cup {CatText}
       /\ \E m \in SampleMatrices : heap = HeapOf(m) /\ matrix = 1
    \/ /\ text \in ShortTexts \cup LongTexts \cup {CatText}
       /\ heap = <<>>
       /\ matrix = 0

\* no call of the visualizer has been made
InitCalls ==
    /\ pc = "start"
    /\ op = "none"
    /\ arg = [aw |-> 0, tokens |-> <<>>]
    /\ before = heap
    /\ ret = Ok(<<>>)

\* ---------------------------------------------------------------- models.py
\* json.dumps of a dictionary whose matrix is a list object: the lists are
\* written out by value, so the text no longer changes with the object
Dumps(h, d) ==
    IF "attention_weights" \in DOMAIN d
    THEN [d EXCEPT !.attention_weights = Deref(h, @)]
    ELSE IF "attention_matrix" \in DOMAIN d
         THEN [d EXCEPT !.attention_matrix = Deref(h, @)]
         ELSE d

\* NLPTask.set_results_dict, with the heap h as it is at the call
set_results_dict(task, h, results_dict) ==
    [task EXCEPT !.results = Dumps(h, results_dict)]

\* NLPTask.set_attention_dict; the column holds <<>> (NULL) or <<text>>
set_attention_dict(task, h, attention_dict) ==
    [task EXCEPT !.attention_data = <<Dumps(h, attention_dict)>>]

\* NLPTask.get_attention_dict: {} is <<>>
get_attention_dict(task) == task.attention_data

\* the row NLPTask(task_type=..., input_text=..., model_name=...,
\* processing_time=...) before results and attention data are set
NLPTask(task_type, input_text, model_name, processing_time) ==
    [task_type |-> task_type,
     input_text |-> input_text,
     model_name |-> model_name,
     processing_time |-> processing_time,
     results |-> <<>>,
     attention_data |-> <<>>]

\* the row ModelMetrics(model_name=..., task_type=..., avg_processing_time=...,
\* total_requests=1)
ModelMetrics(model_name, task_type, avg_processing_time) ==
    [model_name |-> model_name,
     task_type |-> task_type,
     avg_processing_time |-> avg_processing_time,
     total_requests |-> 1]

\* ------------------------------------------------- update_model_metrics
\* the rows of ms for the key (model_name, task_type)
MetricsRows(ms, model_name, task_type) ==
    {i \in 1..Len(ms) :
        ms[i].model_name = model_name /\ ms[i].task_type = task_type}

\* mutant: the query filters by model_name only
MetricsQueryByModel(ms, model_name, task_type) ==
    LET hits == {i \in 1..Len(ms) : ms[i].model_name = model_name}
    IN  IF hits = {}
        THEN [row |-> 0, avg_processing_time |-> Frac(0, 1), total_requests |-> 0]
        ELSE LET i == CHOOSE i \in hits : \A j \in hits : i <= j
             IN  [row |-> i,
                  avg_processing_time |-> ms[i].avg_processing_time,
                  total_requests |-> ms[i].total_requests]

\* ModelMetrics.query.filter_by(...).first(): the object loaded into the
\* session, with the column values as they are read; row 0 is None
MetricsQuery(ms, model_name, task_type) ==
    LET hits == MetricsRows(ms, model_name, task_type)
    IN  IF hits = {}
        THEN [row |-> 0, avg_processing_time |-> Frac(0, 1), total_requests |-> 0]
        ELSE LET i == CHOOSE i \in hits : \A j \in hits : i <= j
             IN  [row |-> i,
                  avg_processing_time |-> ms[i].avg_processing_time,
                  total_requests |-> ms[i].total_requests]

\* mutant: the commit increments the row as it is in the table at that time,
\* and inserts only when the table still has no row for the key
MetricsCommitAtomic(ms, metric, model_name, task_type, processing_time) ==
    LET now == MetricsQuery(ms, model_name, task_type)
        total_requests == now.total_requests + 1
        total_time == Frac(now.avg_processing_time.num * now.total_requests
                             + processing_time * now.avg_processing_time.den,
                           now.avg_processing_time.den)
    IN  IF now.row # 0
        THEN [ms EXCEPT ![now.row] =
                 [@ EXCEPT !.total_requests = total_requests,
                           !.avg_processing_time =
                               Frac(total_time.num, total_time.den * total_requests)]]
        ELSE Append(ms, ModelMetrics(model_name, task_type, Frac(processing_time, 1)))

\* lines 212-227 on the object loaded by the query: the new values are
\* computed from the loaded ones and written to the row, or a row is added
MetricsCommit(ms, metric, model_name, task_type, processing_time) ==
    LET total_requests == metric.total_requests + 1
        total_time == Frac(metric.avg_processing_time.num * metric.total_requests
                             + processing_time * metric.avg_processing_time.den,
                           metric.avg_processing_time.den)
    IN  IF metric.row # 0
        THEN [ms EXCEPT ![metric.row] =
                 [@ EXCEPT !.total_requests = total_requests,
                           !.avg_processing_time =
                               Frac(total_time.num, total_time.den * total_requests)]]
        ELSE Append(ms, ModelMetrics(model_name, task_type, Frac(processing_time, 1)))

\* mutant: an exception of the body leaves update_model_metrics
UpdateOutcomeUnguarded(ms, body) ==
    [exc |-> body.exc,
     metrics |-> IF body.exc # "" THEN ms ELSE body.val,
     committed |-> body.exc = ""]

\* except Exception: the error is logged and the function returns
UpdateOutcome(ms, body) ==
    [exc |-> "",
     metrics |-> IF body.exc # "" THEN ms ELSE body.val,
     committed |-> body.exc = ""]

\* update_model_metrics in one piece, as a request that runs alone sees it;
\* fault: the database raises inside the try block
update_model_metrics(ms, model_name, task_type, processing_time, fault) ==
    UpdateOutcome(ms,
        IF fault THEN Raise("OperationalError")
        ELSE Ok(MetricsCommit(ms, MetricsQuery(ms, model_name, task_type),
                              model_name, task_type, processing_time)))

\* ------------------------------------------------------------ analyze_text
ModelNames == {"bert-base-uncased", "roberta-base"}

\* the task types /analyze dispatches on, lines 39-51
SupportedTypes ==
    {"sentiment", "classification", "ner", "summarization", "qa", "attention"}

\* the task types whose result gets a heatmap, line 67
HeatmapTypes == {"sentiment", "classification", "attention"}

\* the keys of the metrics table
Keys == ModelNames \X SupportedTypes

\* a JSON null where a string is expected
JsonNull == <<"null">>

\* data.get(key, default)
Get(data, key, default) == IF key \in DOMAIN data THEN data[key] ELSE default

RECURSIVE StripLeft(_)
StripLeft(s) ==
    IF s # <<>> /\ IsSpace(Head(s)) THEN StripLeft(Tail(s)) ELSE s

RECURSIVE StripRight(_)
StripRight(s) ==
    IF s # <<>> /\ IsSpace(s[Len(s)])
    THEN StripRight(SubSeq(s, 1, Len(s) - 1))
    ELSE s

\* str.strip
Strip(s) == StripRight(StripLeft(s))

\* what a processor of nlp_services.py leaves: the heap that holds the
\* matrix it generated, and its result dictionary
Processed(h, results) == [exc |-> "", heap |-> h, results |-> results]

\* analyze_sentiment and get_attention_weights on the generated matrix;
\* the predictions are left out, no route reads them
WithAttention(task_type, txt, model_name, mock) ==
    IF task_type = "sentiment"
    THEN Processed(mock, [task |-> "sentiment_analysis", model_used |-> model_name,
                          attention_weights |-> 1])
    ELSE Processed(mock, [task |-> "attention_analysis", text |-> txt,
                          model_used |-> model_name, attention_weights |-> 1])

\* lines 39-51: the processor of the task type; labels, entities, summary
\* and answer are left out. question_answering raises on a context that is
\* no string, the others cannot raise on a non-empty text.
Processor(task_type, txt, data, model_name, seed) ==
    CASE task_type \in {"sentiment", "attention"} ->
            WithAttention(task_type, txt, model_name,
                          HeapOf(generate_mock_attention(txt, seed).val))
      [] task_type = "classification" ->
            Processed(<<>>, [task |-> "text_classification", model_used |-> model_name])
      [] task_type = "ner" ->
            Processed(<<>>, [task |-> "named_entity_recognition", model_used |-> model_name])
      [] task_type = "summarization" ->
            Processed(<<>>, [task |-> "text_summarization", model_used |-> model_name])
      [] task_type = "qa" ->
            IF Get(data, "context", <<>>) = JsonNull
            THEN [exc |-> "Question answering failed", heap |-> <<>>,
                  results |-> [task |-> "question_answering"]]
            ELSE Processed(<<>>, [task |-> "question_answering", model_used |-> model_name])

\* results.get('attention_weights', []): the list of the dictionary, or a
\* new empty list
GetAttentionWeights(h, results) ==
    IF "attention_weights" \in DOMAIN results
    THEN [heap |-> h, ref |-> results.attention_weights]
    ELSE [heap |-> Append(h, <<>>), ref |-> Len(h) + 1]

\* what a request leaves behind: the tables, the response, and whether its
\* update_model_metrics call committed
Reply(ts, ms, committed, status, body) ==
    [tasks |-> ts, metrics |-> ms, committed |-> committed,
     response |-> [status |-> status, body |-> body]]

\* lines 68-71 on the list aw: the heatmap is built and stored in the task
AttachHeatmap(task, txt, aw) ==
    LET hm == generate_attention_heatmap(aw.heap, txt, aw.ref)
    IN  [task |-> set_attention_dict(task, hm.heap, hm.out.val), heap |-> hm.heap]

\* lines 73-84 on the finished task t.task: it is committed, the metrics are
\* updated and the response is made from the results as they are then;
\* fault names the commit the database refuses
CommitAndReply(ts, ms, t, results, upd, fault) ==
    IF fault = "task"
    THEN Reply(ts, ms, FALSE, 500,
               [error |-> <<"Processing failed: ", "OperationalError">>])
    ELSE IF upd.exc # ""
    THEN Reply(Append(ts, t.task), upd.metrics, FALSE, 500,
               [error |-> <<"Processing failed: ", upd.exc>>])
    ELSE Reply(Append(ts, t.task), upd.metrics, upd.committed, 200,
               [results |-> Dumps(t.heap, results),
                processing_time |-> t.task.processing_time,
                task_id |-> Len(ts) + 1,
                attention_data |-> get_attention_dict(t.task)])

\* lines 57-71: the task is built from the results of the processor
BuildTask(task, task_type, txt, run) ==
    IF task_type \in HeatmapTypes
    THEN AttachHeatmap(task, txt, GetAttentionWeights(run.heap, run.results))
    ELSE [task |-> task, heap |-> run.heap]

\* lines 55-84, after the processor returned run
SaveAndReply(ts, ms, txt, task_type, model_name, run, processing_time, fault) ==
    IF run.exc # ""
    THEN Reply(ts, ms, FALSE, 500, [error |-> <<"Processing failed: ", run.exc>>])
    ELSE CommitAndReply(ts, ms,
             BuildTask(set_results_dict(
                           NLPTask(task_type, txt, model_name, processing_time),
                           run.heap, run.results),
                       task_type, txt, run),
             run.results,
             update_model_metrics(ms, model_name, task_type, processing_time,
                                  fault = "metrics"),
             fault)

\* mutant: the metrics are updated before the task type is looked at
DispatchCountsFirst(ts, ms, data, txt, task_type, model_name, seed, processing_time, fault) ==
    IF txt = <<>>
    THEN Reply(ts, ms, FALSE, 400, [error |-> <<"No text provided">>])
    ELSE IF task_type \notin SupportedTypes
    THEN Reply(ts,
               update_model_metrics(ms, model_name, task_type, processing_time,
                                    FALSE).metrics,
               FALSE, 400, [error |-> <<"Unsupported task type">>])
    ELSE SaveAndReply(ts, ms, txt, task_type, model_name,
                      Processor(task_type, txt, data, model_name, seed),
                      processing_time, fault)

\* lines 33-53 on the fields of the request
Dispatch(ts, ms, data, txt, task_type, model_name, seed, processing_time, fault) ==
    IF txt = <<>>
    THEN Reply(ts, ms, FALSE, 400, [error |-> <<"No text provided">>])
    ELSE IF task_type \notin SupportedTypes
    THEN Reply(ts, ms, FALSE, 400, [error |-> <<"Unsupported task type">>])
    ELSE SaveAndReply(ts, ms, txt, task_type, model_name,
                      Processor(task_type, txt, data, model_name, seed),
                      processing_time, fault)

\* POST /analyze on the tables ts and ms
analyze_text(ts, ms, data, seed, processing_time, fault) ==
    Dispatch(ts, ms, data,
             Strip(Get(data, "text", <<>>)),
             Get(data, "task_type", "sentiment"),
             Get(data, "model_name", "bert-base-uncased"),
             seed, processing_time, fault)

\* ------------------------------------------------ get_attention_visualization
\* mutant: an error record stored for the task counts as no attention data
AnswerWithoutErrors(attention_data) ==
    IF attention_data = <<>> \/ "error" \in DOMAIN attention_data[1]
    THEN Ok([status |-> 404,
             body |-> [error |-> <<"No attention data available for this task">>]])
    ELSE Ok([status |-> 200, body |-> attention_data[1]])

\* lines 171-176 on the dictionary get_attention_dict returned: an empty one
\* is answered 404, any other is the body of the answer
Answer(attention_data) ==
    IF attention_data = <<>>
    THEN Ok([status |-> 404,
             body |-> [error |-> <<"No attention data available for this task">>]])
    ELSE Ok([status |-> 200, body |-> attention_data[1]])

\* the try block, lines 168-176: get_or_404 raises NotFound for an id that
\* has no row
VisualizationBody(ts, task_id) ==
    IF task_id \notin 1..Len(ts)
    THEN Raise("404 Not Found")
    ELSE Answer(get_attention_dict(ts[task_id]))

\* what the handler makes of the outcome b of its try block; except
\* Exception, lines 177-179, also catches the NotFound of get_or_404
VisualizationReply(b) ==
    IF b.exc # ""
    THEN [status |-> 500,
          body |-> [error |-> <<"Failed to get attention visualization: ", b.exc>>]]
    ELSE b.val

\* GET /attention_visualization/<task_id> on the table ts
get_attention_visualization(ts, task_id) ==
    VisualizationReply(VisualizationBody(ts, task_id))

\* ------------------------------------------------------- database, requests
\* the largest processing time a request measures, in milliseconds
MaxTime == 2

\* the number of tasks a session of requests persists
MaxRequests == 2

\* the number of requests that can be inside update_model_metrics at once
MaxWorkers == 2

\* the number of update_model_metrics calls of a run
MaxUpdates == 3

Workers == 1..MaxWorkers

\* a request that is not inside update_model_metrics
IdleWorker ==
    [pc |-> "idle", model_name |-> "", task_type |-> "", processing_time |-> 0,
     metric |-> MetricsQuery(<<>>, "", ""), stale |-> FALSE]

\* db.create_all() on an empty database, and no request yet
InitDb ==
    /\ tasks = <<>>
    /\ metrics = <<>>
    /\ response = [status |-> 0, body |-> [error |-> <<>>]]
    /\ workers = [w \in Workers |-> IdleWorker]
    /\ updates = [k \in Keys |-> [count |-> 0, sum |-> 0]]
    /\ raced = {}

Init ==
    /\ InitInputs
    /\ InitCalls
    /\ InitDb

\* ---------------------------------------------------------------- actions
\* the caller asks the generator for a matrix and keeps the list it returns
GenerateMockAttention ==
    /\ pc = "start"
    /\ matrix = 0
    /\ \E seed \in 0..MaxSeed :
          LET out == generate_mock_attention(text, seed)
          IN  /\ heap' = heap \o HeapOf(out.val)
              /\ matrix' = Len(heap) + 1
              /\ ret' = [exc |-> out.exc, val |-> Len(heap) + 1]
    /\ pc' = "generated"
    /\ op' = "generate"
    /\ arg' = [aw |-> 0, tokens |-> <<>>]
    /\ before' = heap
    /\ UNCHANGED text
    /\ UNCHANGED dbvars

\* generate_attention_heatmap(text, aw) on the list object aw
Heatmap(aw) ==
    LET r == generate_attention_heatmap(heap, text, aw)
    IN  /\ heap' = r.heap
        /\ ret' = r.out
        /\ op' = "heatmap"
        /\ arg' = [aw |-> aw, tokens |-> <<>>]
        /\ before' = heap
        /\ UNCHANGED <<text, matrix>>
        /\ UNCHANGED dbvars

\* the caller passes its matrix
CallHeatmap ==
    /\ pc \in {"start", "generated"}
    /\ matrix # 0
    /\ Heatmap(matrix)
    /\ pc' = "heatmap"

\* the caller passes the matrix of the record it got back, with the same text
CallHeatmapAgain ==
    /\ pc = "heatmap"
    /\ "attention_matrix" \in DOMAIN ret.val
    /\ Heatmap(ret.val.attention_matrix)
    /\ pc' = "done"

\* analyze_attention_patterns(m, tokens); it only reads its arguments
Analyze(aw, tokens) ==
    /\ ret' = analyze_attention_patterns(Deref(heap, aw), tokens)
    /\ op' = "analyze"
    /\ arg' = [aw |-> aw, tokens |-> tokens]
    /\ before' = heap
    /\ pc' = "done"
    /\ UNCHANGED <<text, heap, matrix>>
    /\ UNCHANGED dbvars

\* the caller passes its matrix and the tokens of its text
CallAnalyze ==
    /\ pc \in {"start", "generated"}
    /\ matrix # 0
    /\ Analyze(matrix, Split(text))

\* the caller passes the matrix and the tokens of the heatmap record
CallAnalyzeHeatmap ==
    /\ pc = "heatmap"
    /\ "attention_matrix" \in DOMAIN ret.val
    /\ Analyze(ret.val.attention_matrix, ret.val.tokens)

Next ==
    \/ GenerateMockAttention
    \/ CallHeatmap
    \/ CallHeatmapAgain
    \/ CallAnalyze
    \/ CallAnalyzeHeatmap

Spec == Init /\ [][Next]_vars

\* ----------------------------------------------------------- POST /analyze
\* no visualizer call is made outside a request
InitIdle ==
    /\ text = <<>>
    /\ heap = <<>>
    /\ matrix = 0
    /\ InitCalls

\* update_model_metrics committed once more for the key, with this time
Counted(ups, model_name, task_type, processing_time) ==
    [ups EXCEPT ![<<model_name, task_type>>] =
        [count |-> @.count + 1, sum |-> @.sum + processing_time]]

\* the tables and the response become what the request r left
Handled(r, data, processing_time) ==
    /\ tasks' = r.tasks
    /\ metrics' = r.metrics
    /\ response' = r.response
    /\ updates' = IF r.committed
                  THEN Counted(updates,
                               Get(data, "model_name", "bert-base-uncased"),
                               Get(data, "task_type", "sentiment"),
                               processing_time)
                  ELSE updates
    /\ UNCHANGED <<workers, raced>>
    /\ UNCHANGED corevars

\* one request to /analyze, handled from start to end
PostAnalyze(data, seed, processing_time, fault) ==
    Handled(analyze_text(tasks, metrics, data, seed, processing_time, fault),
            data, processing_time)

\* the commit a request finds the database refusing
Faults == {"none", "task", "metrics"}

\* texts with blanks around them and of few tokens
ShortRouteTexts ==
    {<<>>, <<WS>>, <<WS, "a", WS>>, WordsText(2), WordsText(3)}

\* texts around the generator's cap
LongRouteTexts == {WordsText(k) : k \in {CAP - 1, CAP, CAP + 1, MaxTokens}}

\* request bodies: every task type and one that is not supported on the
\* short texts, the task types that get a heatmap on the long ones, bodies
\* without task_type and model_name, without text, and with a null context
RouteRequests ==
    {[text |-> t, task_type |-> ty, model_name |-> m] :
        t \in ShortRouteTexts, ty \in SupportedTypes \cup {"translation"},
        m \in ModelNames}
    \cup {[text |-> t, task_type |-> ty, model_name |-> "roberta-base"] :
            t \in LongRouteTexts, ty \in HeatmapTypes}
    \cup {[text |-> t] : t \in ShortRouteTexts}
    \cup {[task_type |-> ty] : ty \in SupportedTypes}
    \cup {[text |-> t, task_type |-> "qa", context |-> c] :
            t \in ShortRouteTexts, c \in {<<>>, JsonNull}}

\* the first request an empty database gets
FirstRequest ==
    /\ response.status = 0
    /\ \E data \in RouteRequests, seed \in 0..MaxSeed,
          processing_time \in 1..MaxTime, fault \in Faults :
          PostAnalyze(data, seed, processing_time, fault)

\* an empty database and no request yet
InitRoutes == InitIdle /\ InitDb

\* a GET /attention_visualization/<task_id> for the id of a task or the next
\* id; it reads the table and leaves the database as it is
GetVisualization ==
    /\ \E task_id \in 1..(Len(tasks) + 1) :
          /\ ret' = get_attention_visualization(tasks, task_id)
          /\ arg' = [task_id |-> task_id]
    /\ op' = "get_attention_visualization"
    /\ UNCHANGED <<text, heap, matrix, pc, before>>
    /\ UNCHANGED dbvars

NextRoutes ==
    \/ FirstRequest
    \/ GetVisualization

SpecRoutes == InitRoutes /\ [][NextRoutes]_vars

\* request bodies of a session: short texts, three task types and one that
\* is not supported, a body without text, and a question with a null context
SessionRequests ==
    {[text |-> t, task_type |-> ty, model_name |-> m] :
        t \in {<<WS>>, <<"a">>},
        ty \in {"sentiment", "classification", "ner", "translation"},
        m \in ModelNames}
    \cup {[task_type |-> "ner"]}
    \cup {[text |-> <<"a">>, task_type |-> "qa", model_name |-> m,
            context |-> JsonNull] : m \in ModelNames}

\* a request of a session in which one request ends before the next begins;
\* the matrix of a text of one token is [[1.0]] whatever is drawn
SessionRequest ==
    /\ Len(tasks) < MaxRequests
    /\ \E data \in SessionRequests, seed \in {MaxSeed},
          processing_time \in 1..MaxTime, fault \in Faults :
          PostAnalyze(data, seed, processing_time, fault)

InitSession == InitIdle /\ InitDb

NextSession == SessionRequest

SpecSession == InitSession /\ [][NextSession]_vars

\* ------------------------------------- update_model_metrics, step by step
\* the keys the concurrent requests update
MetricKeys == ModelNames \X {"sentiment", "ner"}

RECURSIVE Committed(_, _)
\* the number of calls that committed for the keys of S
Committed(ups, S) ==
    IF S = {} THEN 0
    ELSE LET k == CHOOSE k \in S : TRUE
         IN  ups[k].count + Committed(ups, S \ {k})

\* the calls that have run the query and not yet committed
InFlight == {w \in Workers : workers[w].pc = "queried"}

\* lines 206-210: a request enters update_model_metrics and runs the query
QueryMetrics(w) ==
    /\ workers[w].pc = "idle"
    /\ Committed(updates, Keys) + Cardinality(InFlight) < MaxUpdates
    /\ \E k \in MetricKeys, processing_time \in 1..MaxTime :
          workers' = [workers EXCEPT ![w] =
                         [pc |-> "queried",
                          model_name |-> k[1],
                          task_type |-> k[2],
                          processing_time |-> processing_time,
                          metric |-> MetricsQuery(metrics, k[1], k[2]),
                          stale |-> FALSE]]
    /\ UNCHANGED <<tasks, metrics, response, updates, raced>>
    /\ UNCHANGED corevars

\* lines 212-227: the request computes the new values from the object it
\* loaded and commits; the objects other requests loaded for the key are
\* from then on older than the table
CommitMetrics(w) ==
    /\ workers[w].pc = "queried"
    /\ LET me == workers[w]
           sameKey(v) == /\ workers[v].pc = "queried"
                         /\ workers[v].model_name = me.model_name
                         /\ workers[v].task_type = me.task_type
       IN  /\ metrics' = MetricsCommit(metrics, me.metric, me.model_name,
                                       me.task_type, me.processing_time)
           /\ updates' = Counted(updates, me.model_name, me.task_type,
                                 me.processing_time)
           /\ raced' = IF me.stale
                       THEN raced \cup {<<me.model_name, me.task_type>>}
                       ELSE raced
           /\ workers' = [v \in Workers |->
                             IF v = w THEN IdleWorker
                             ELSE IF sameKey(v)
                                  THEN [workers[v] EXCEPT !.stale = TRUE]
                                  ELSE workers[v]]
    /\ UNCHANGED <<tasks, response>>
    /\ UNCHANGED corevars

\* lines 229-230: the database raises, the error is logged, nothing is written
FailMetrics(w) ==
    /\ workers[w].pc = "queried"
    /\ workers' = [workers EXCEPT ![w] = IdleWorker]
    /\ UNCHANGED <<tasks, metrics, response, updates, raced>>
    /\ UNCHANGED corevars

NextMetrics ==
    \/ \E w \in Workers : QueryMetrics(w)
    \/ \E w \in Workers : CommitMetrics(w)
    \/ \E w \in Workers : FailMetrics(w)

InitMetrics == InitIdle /\ InitDb

SpecMetrics == InitMetrics /\ [][NextMetrics]_vars


\* ================================================================= claims
\* the tokens of the request's text
Tokens == Split(text)

\* the matrix passed to the operation called last, as it was on entry
InputMatrix == Deref(before, arg.aw)

\* the operation called last returned a record without an 'error' key
Succeeded == ret.exc = "" /\ "error" \notin DOMAIN ret.val

\* the operation called last returned a record holding only 'error'
IsError == ret.exc = "" /\ DOMAIN ret.val = {"error"}

\* the matrix of the heatmap record returned last
ResultMatrix == Deref(heap, ret.val.attention_matrix)

\* m has n rows of n cells
IsSquare(m, n) == Len(m) = n /\ \A i \in 1..Len(m) : Len(m[i]) = n

HeatmapFields ==
    {"tokens", "attention_matrix", "max_attention", "min_attention",
     "avg_attention", "token_importance"}

\* C1 (as claimed): for every non-empty input matrix and every text of
\* N >= 1 tokens the returned attention_matrix is exactly N x N, keeps every
\* input cell that lies inside N x N and holds 0 in every other cell.
C1_ReconciledExactlyNxN ==
    (op = "heatmap" /\ InputMatrix # <<>> /\ Len(Tokens) >= 1) =>
        /\ Succeeded
        /\ IsSquare(ResultMatrix, Len(Tokens))
        /\ \A i \in 1..Len(Tokens) : \A j \in 1..Len(Tokens) :
              ResultMatrix[i][j] =
                  IF i <= Len(InputMatrix) /\ j <= Len(InputMatrix[i])
                  THEN InputMatrix[i][j] ELSE 0

\* C2 (as claimed): generate_attention_heatmap never mutates the matrix it
\* is given: every list object that existed on entry holds the same cells
\* on return.
C2_CallerMatrixNeverMutated ==
    op = "heatmap" => \A id \in 1..Len(before) : heap[id] = before[id]

\* C3 (as claimed): generate_attention_heatmap returns either a record
\* holding only 'error', or a complete record whose token_importance has one
\* entry per token; a fault in the importance calculation never leaves a
\* success record with a short importance list.
C3_NoPartialResult ==
    op = "heatmap" =>
        /\ ret.exc = ""
        /\ \/ DOMAIN ret.val = {"error"}
           \/ /\ DOMAIN ret.val = HeatmapFields
              /\ Len(ret.val.token_importance) = Len(ret.val.tokens)

\* C4 (as claimed): with a non-empty matrix and a non-empty token list,
\* generate_attention_heatmap and analyze_attention_patterns return a record
\* without an 'error' key, whatever the dimensions.
C4_MismatchNeverAnError ==
    /\ (op = "heatmap" /\ InputMatrix # <<>> /\ Tokens # <<>>) => Succeeded
    /\ (op = "analyze" /\ InputMatrix # <<>> /\ arg.tokens # <<>>) => Succeeded

\* C5: when the text has N >= 1 tokens and the reconciled matrix is N x N,
\* token_importance has exactly N entries and the entry at position i
\* carries index i, for i in 0..N-1.
C5_ImportancePerTokenInOrder ==
    (op = "heatmap" /\ Succeeded /\ Len(Tokens) >= 1
        /\ IsSquare(ResultMatrix, Len(Tokens))) =>
        /\ Len(ret.val.token_importance) = Len(Tokens)
        /\ \A i \in 1..Len(Tokens) : ret.val.token_importance[i].index = i - 1

\* C5 witness: a matrix that was not N x N on entry was reconciled to N x N
\* for N >= 2 tokens and N importance entries came back.
C5_Witness ==
    /\ op = "heatmap" /\ Succeeded /\ Len(Tokens) >= 2
    /\ ~IsSquare(InputMatrix, Len(Tokens))
    /\ IsSquare(ResultMatrix, Len(Tokens))
    /\ Len(ret.val.token_importance) = Len(Tokens)

\* C6: an empty matrix makes generate_attention_heatmap return an error
\* record for any text; an empty matrix or an empty token list makes
\* analyze_attention_patterns return an error record; no exception leaves.
C6_EmptyInputIsErrorRecord ==
    /\ (op = "heatmap" /\ InputMatrix = <<>>) => IsError
    /\ (op = "analyze" /\ (InputMatrix = <<>> \/ arg.tokens = <<>>)) => IsError

\* C6 witness: analyze_attention_patterns was given a non-empty matrix and
\* no tokens and returned the error record.
C6_Witness ==
    op = "analyze" /\ InputMatrix # <<>> /\ arg.tokens = <<>> /\ IsError

\* C7: every call of the three operations ends by returning a value; no
\* exception leaves the operation.
C7_NoFaultEscapes == op # "none" => ret.exc = ""

\* C7 witness: an IndexError was raised inside analyze_attention_patterns
\* and the call still returned a value.
C7_Witness ==
    /\ op = "analyze"
    /\ AnalyzeBody(InputMatrix, arg.tokens).exc = "IndexError"
    /\ ret.exc = ""

RECURSIVE ColTotal(_, _, _)
\* the sum of the first k cells of column i
ColTotal(m, i, k) == IF k = 0 THEN 0 ELSE m[k][i] + ColTotal(m, i, k - 1)

RECURSIVE RowTotal(_, _, _)
\* the sum of the first k cells of row i
RowTotal(m, i, k) == IF k = 0 THEN 0 ELSE m[i][k] + RowTotal(m, i, k - 1)

Largest(S) == CHOOSE x \in S : \A y \in S : y <= x

\* the fraction f equals x / mx, or 0 when mx is 0
IsShareOf(f, x, mx) ==
    IF mx = 0 THEN f.num = 0 ELSE f.num * mx = x * f.den

\* C8: for an N x N matrix every importance entry i has incoming_attention =
\* (sum of column i) / (largest column sum), outgoing_attention = (sum of
\* row i) / (largest row sum), each 0 when that largest sum is 0, and
\* importance = (incoming_attention + outgoing_attention) / 2.
C8_ImportanceFormula ==
    (op = "heatmap" /\ Succeeded /\ Len(Tokens) >= 1
        /\ IsSquare(ResultMatrix, Len(Tokens))) =>
        LET n == Len(Tokens)
            m == ResultMatrix
            maxcol == Largest({ColTotal(m, k, n) : k \in 1..n})
            maxrow == Largest({RowTotal(m, k, n) : k \in 1..n})
        IN  /\ Len(ret.val.token_importance) = n
            /\ \A i \in 1..n :
                  LET e == ret.val.token_importance[i]
                      a == e.incoming_attention
                      b == e.outgoing_attention
                  IN  /\ IsShareOf(a, ColTotal(m, i, n), maxcol)
                      /\ IsShareOf(b, RowTotal(m, i, n), maxrow)
                      /\ e.importance =
                            Frac(a.num * b.den + b.num * a.den, 2 * a.den * b.den)

\* C8 witness: an N x N matrix, N >= 2, with an entry whose incoming and
\* outgoing shares are both strictly between 0 and 1.
C8_Witness ==
    /\ op = "heatmap" /\ Succeeded /\ Len(Tokens) >= 2
    /\ IsSquare(ResultMatrix, Len(Tokens))
    /\ \E i \in 1..Len(ret.val.token_importance) :
          LET e == ret.val.token_importance[i]
          IN  /\ 0 < e.incoming_attention.num
              /\ e.incoming_attention.num < e.incoming_attention.den
              /\ 0 < e.outgoing_attention.num
              /\ e.outgoing_attention.num < e.outgoing_attention.den

\* the scenario: "The cat sat" with [[0.6,0.3,0.1],[0.2,0.5,0.3],[0.1,0.2,0.7]]
CatCase == op = "heatmap" /\ text = CatText /\ InputMatrix = CatMatrix

\* C9 (as claimed): in the scenario max_attention = 0.7, min_attention = 0.1
\* and the importance of the token at index 0 is the highest of the three.
C9_IndexZeroHighest ==
    CatCase =>
        /\ ret.val.max_attention = 700
        /\ ret.val.min_attention = 100
        /\ \A i \in 1..3 :
              ~FracLess(ret.val.token_importance[1].importance,
                        ret.val.token_importance[i].importance)

\* C9 (amended): in the scenario max_attention = 0.7, min_attention = 0.1
\* and the importance of the token at index 2 is the highest of the three.
C9_IndexTwoHighest ==
    CatCase =>
        /\ ret.val.max_attention = 700
        /\ ret.val.min_attention = 100
        /\ Len(ret.val.token_importance) = 3
        /\ \A i \in 1..2 :
              FracLess(ret.val.token_importance[i].importance,
                       ret.val.token_importance[3].importance)

\* C9 witness: the scenario's call has returned its three importance entries.
C9_Witness ==
    CatCase /\ Succeeded /\ Len(ret.val.token_importance) = 3

\* C10: _generate_mock_attention returns a square matrix of side min(T, 20)
\* for a text of T tokens: the empty list for T = 0, T x T up to 20 tokens,
\* 20 x 20 beyond.
C10_MockSideIsMinTokens20 ==
    op = "generate" =>
        /\ ret.exc = ""
        /\ IsSquare(Deref(heap, ret.val),
                    IF Len(Tokens) > 20 THEN 20 ELSE Len(Tokens))

\* C10 witness: a text of more than 20 tokens got a 20 x 20 matrix.
C10_Witness ==
    /\ op = "generate" /\ Len(Tokens) > 20
    /\ IsSquare(Deref(heap, ret.val), 20)

\* the number of indices that come before i in the descending stable order
RankBefore(keys, i) ==
    Cardinality({j \in 1..Len(keys) :
                    keys[j] > keys[i] \/ (keys[j] = keys[i] /\ j < i)})

\* the index at position k of the descending stable order
IndexAtRank(keys, k) == CHOOSE i \in 1..Len(keys) : RankBefore(keys, i) = k - 1

Diagonal(m) == [i \in 1..Len(m) |-> m[i][i]]

RowTotals(m) == [i \in 1..Len(m) |-> RowTotal(m, i, Len(m))]

ColTotals(m) == [i \in 1..Len(m) |-> ColTotal(m, i, Len(m))]

\* the analyze call was given an N x N matrix and N >= 1 tokens
SquareAnalyze ==
    /\ op = "analyze"
    /\ Len(arg.tokens) >= 1
    /\ IsSquare(InputMatrix, Len(arg.tokens))

\* C11: for an N x N matrix and N tokens each of high_self_attention,
\* most_influential and most_attended is the first min(3, N) tokens of the
\* descending ordering by diagonal cell, row sum and column sum, equal scores
\* in ascending original index.
C11_TopListsAreStableTopThree ==
    SquareAnalyze =>
        LET n == Len(arg.tokens)
            size == IF n < 3 THEN n ELSE 3
            d == Diagonal(InputMatrix)
            r == RowTotals(InputMatrix)
            c == ColTotals(InputMatrix)
        IN  /\ Succeeded
            /\ ret.val.high_self_attention =
                  [k \in 1..size |-> [token |-> arg.tokens[IndexAtRank(d, k)],
                                      score |-> d[IndexAtRank(d, k)]]]
            /\ ret.val.most_influential =
                  [k \in 1..size |-> [token |-> arg.tokens[IndexAtRank(r, k)],
                                      total_attention |-> r[IndexAtRank(r, k)]]]
            /\ ret.val.most_attended =
                  [k \in 1..size |-> [token |-> arg.tokens[IndexAtRank(c, k)],
                                      total_attention |-> c[IndexAtRank(c, k)]]]

\* C11 witness: more than three distinct tokens, two equal row sums among
\* the listed ones, and the earlier token of the tie listed first.
C11_Witness ==
    /\ SquareAnalyze /\ Succeeded /\ Len(arg.tokens) > 3
    /\ \E k \in 1..2 :
          /\ ret.val.most_influential[k].total_attention =
                ret.val.most_influential[k + 1].total_attention
          /\ ret.val.most_influential[k].token # ret.val.most_influential[k + 1].token

\* the three top lists of an analysis record
TopLists(rec) ==
    {rec.high_self_attention, rec.most_influential, rec.most_attended}

\* C12: in every success record of analyze_attention_patterns each top list
\* has at most 3 entries and at most as many entries as there are tokens, and
\* every entry names a token of the given token list.
C12_TopListsBounded ==
    (op = "analyze" /\ Succeeded) =>
        \A L \in TopLists(ret.val) :
            /\ Len(L) <= 3
            /\ Len(L) <= Len(arg.tokens)
            /\ \A k \in 1..Len(L) : L[k].token \in Range(arg.tokens)

\* C12 witness: the matrix has more rows than there are tokens and the list
\* of most influential tokens was cut to the token count.
C12_Witness ==
    /\ op = "analyze" /\ Succeeded
    /\ Len(InputMatrix) > Len(arg.tokens)
    /\ Len(ret.val.most_influential) = Len(arg.tokens)

\* the rows of m whose cells sum to zero
ZeroRows(m) == {i \in 1..Len(m) : SumSeq(m[i]) = 0}

\* the entropies of the rows of m whose sum is positive, 0 for the others
EntropiesWithZeros(m) ==
    [i \in 1..Len(m) |-> IF i \in ZeroRows(m) THEN 0 ELSE RowEntropy(m[i])]

\* an analyze call with tokens whose matrix has a cell for every index the
\* top lists read and at least one row whose sum is zero
ZeroRowAnalyze ==
    /\ op = "analyze"
    /\ arg.tokens # <<>>
    /\ \A i \in 1..Len(InputMatrix) : Len(InputMatrix[i]) >= Len(arg.tokens)
    /\ ZeroRows(InputMatrix) # {}

MockMatrix == Deref(heap, ret.val)

\* v is within the interval the generator draws from for the cell (i, j)
DrawInRange(i, j, v) ==
    IF i = j THEN 300 <= v /\ v <= 800
    ELSE IF i - j = 1 \/ j - i = 1 THEN 200 <= v /\ v <= 500
    ELSE 50 <= v /\ v <= 300

\* q is x / total to the nearest thousandth
IsQuotientOf(q, x, total) ==
    LET diff == q * total - x * One
    IN  2 * diff <= total /\ -(2 * diff) <= total

\* row is the row i of an n x n matrix of draws, each from the interval of
\* its position, divided by their positive sum
IsNormalizedDraws(row, i, n) ==
    \E seed \in 0..MaxSeed :
        LET draws == [j \in 1..n |-> Draw(i, j, n, seed)]
            total == SumSeq(draws)
        IN  /\ \A j \in 1..n : DrawInRange(i, j, draws[j])
            /\ total > 0
            /\ Len(row) = n
            /\ \A j \in 1..n : IsQuotientOf(row[j], draws[j], total)

\* C14: every row of every matrix returned by _generate_mock_attention is
\* normalized: its draws come from [0.3, 0.8] on the diagonal, [0.2, 0.5]
\* next to it and [0.05, 0.3] elsewhere, so their sum is positive, and the
\* returned row is the draws divided by that sum and sums to 1 (here: to
\* within half a thousandth per cell, the resolution of the cells).
C14_MockRowsNormalized ==
    op = "generate" =>
        \A i \in 1..Len(MockMatrix) :
            /\ IsNormalizedDraws(MockMatrix[i], i, Len(MockMatrix))
            /\ 2 * (SumSeq(MockMatrix[i]) - One) <= Len(MockMatrix[i])
            /\ 2 * (One - SumSeq(MockMatrix[i])) <= Len(MockMatrix[i])

\* C14 witness: a generated matrix of the capped size whose first two
\* diagonal cells differ.
C14_Witness ==
    /\ op = "generate"
    /\ Len(MockMatrix) = CAP
    /\ MockMatrix[1][1] # MockMatrix[2][2]

\* the heatmap call was given a matrix that is already N x N for the N tokens
\* of the text, or the matrix returned by the heatmap call before it
AlreadyReconciled ==
    /\ op = "heatmap"
    /\ IsSquare(InputMatrix, Len(Tokens)) \/ pc = "done"

\* the heatmap call returned the list it was given, every cell as it was
ReturnsInputUnchanged ==
    /\ Succeeded
    /\ ret.val.attention_matrix = arg.aw
    /\ ResultMatrix = InputMatrix

\* C15 (as claimed): generate_attention_heatmap given an N x N matrix and a
\* text of N tokens returns that matrix with every cell unchanged, and given
\* the matrix a call returned, with the same text, returns that matrix again.
C15_ReconcileIdempotent ==
    AlreadyReconciled => ReturnsInputUnchanged

\* C15 (amended): the same for a text of N >= 1 tokens; with no tokens the
\* reconciled matrix is the empty list, which the next call rejects.
C15_ReconcileIdempotentWithTokens ==
    (AlreadyReconciled /\ Len(Tokens) >= 1) => ReturnsInputUnchanged

\* C15 witness: the matrix returned for a text of two or more tokens was
\* passed in again and came back as it was.
C15_Witness ==
    /\ op = "heatmap" /\ pc = "done"
    /\ Len(Tokens) >= 2
    /\ ReturnsInputUnchanged
    /\ IsSquare(ResultMatrix, Len(Tokens))

\* the values of the cells of m
CellValues(m) == UNION {Range(m[i]) : i \in 1..Len(m)}

Smallest(S) == CHOOSE x \in S : \A y \in S : x <= y

\* the number of cells of m and their sum
CellCount(m) == SumSeq([i \in 1..Len(m) |-> Len(m[i])])

CellSum(m) == SumSeq([i \in 1..Len(m) |-> SumSeq(m[i])])

\* the record of an empty reconciled matrix
IsDefaultRecord(rec) ==
    /\ rec.tokens = <<>>
    /\ Deref(heap, rec.attention_matrix) = <<>>
    /\ rec.max_attention = One
    /\ rec.min_attention = 0
    /\ rec.avg_attention = Frac(0, 1)
    /\ rec.token_importance = <<>>

\* max, min and mean of the record are those of the cells of its matrix
HasStatsOfCells(rec) ==
    LET m == Deref(heap, rec.attention_matrix)
    IN  /\ CellValues(m) # {}
        /\ rec.max_attention = Largest(CellValues(m))
        /\ rec.min_attention = Smallest(CellValues(m))
        /\ rec.avg_attention.num * CellCount(m) = CellSum(m) * rec.avg_attention.den

\* C16 (as claimed): for a non-empty input matrix generate_attention_heatmap
\* returns a success record; with a text of zero tokens it has tokens = [],
\* attention_matrix = [], max 1.0, min 0.0, mean 0.0 and an empty
\* token_importance; otherwise max, min and mean are the maximum, minimum and
\* arithmetic mean over all cells of the reconciled matrix.
C16_DefaultsOnlyWithoutTokens ==
    (op = "heatmap" /\ InputMatrix # <<>>) =>
        /\ Succeeded
        /\ IF Len(Tokens) = 0
           THEN IsDefaultRecord(ret.val)
           ELSE HasStatsOfCells(ret.val)

\* the ids of the ModelMetrics rows of key k
RowsOf(k) ==
    {i \in 1..Len(metrics) :
        metrics[i].model_name = k[1] /\ metrics[i].task_type = k[2]}

\* the ids of the NLPTask rows of key k
TasksOf(k) ==
    {i \in 1..Len(tasks) :
        tasks[i].model_name = k[1] /\ tasks[i].task_type = k[2]}

\* C17: update_model_metrics is an unserialized read-modify-write: once a
\* call for a key has committed on a row state (or on the absence of a row)
\* that another call for the key read as well and committed on first, the
\* key's total_requests is smaller than the number of updates that completed,
\* or two rows exist for the key.
C17_RacedUpdatesBreakAveraging ==
    \A k \in raced :
        \/ Cardinality(RowsOf(k)) >= 2
        \/ \A i \in RowsOf(k) : metrics[i].total_requests < updates[k].count

\* C17 witness: two calls for a key read the same row and both committed;
\* the one row of the key counts fewer requests than calls completed.
C17_Witness ==
    \E k \in raced :
        /\ Cardinality(RowsOf(k)) = 1
        /\ \A i \in RowsOf(k) : metrics[i].total_requests < updates[k].count

\* C18: when one request ends before the next begins, after k >= 1
\* successful update_model_metrics calls for a key there is exactly one row
\* for it, its total_requests is k and avg_processing_time * total_requests
\* is the sum of the k processing times; a key without a successful call has
\* no row, so the calls for one key leave the rows of the others as they were.
C18_SequentialAveraging ==
    \A k \in Keys :
        IF updates[k].count = 0
        THEN RowsOf(k) = {}
        ELSE /\ Cardinality(RowsOf(k)) = 1
             /\ \A i \in RowsOf(k) :
                   /\ metrics[i].total_requests = updates[k].count
                   /\ metrics[i].avg_processing_time.num * metrics[i].total_requests
                         = updates[k].sum * metrics[i].avg_processing_time.den
                   /\ metrics[i].avg_processing_time
                         = Frac(updates[k].sum, updates[k].count)

\* C18 witness: two successful calls for one key with different times.
C18_Witness ==
    \E k \in Keys :
        /\ updates[k].count = 2
        /\ updates[k].sum = 3
        /\ \A i \in RowsOf(k) : metrics[i].total_requests = 2

\* the task persisted last and the token count of its text
LastTask == tasks[Len(tasks)]

LastTokens == Len(Split(LastTask.input_text))

\* big is m zero-padded to n x n
IsZeroPadded(big, m, n) ==
    /\ IsSquare(big, n)
    /\ \A i \in 1..n : \A j \in 1..n :
          big[i][j] = IF i <= Len(m) /\ j <= Len(m[i]) THEN m[i][j] ELSE 0

\* C19: in /analyze the results are serialized into the task before the
\* heatmap is built from the same matrix object: for a sentiment or attention
\* request of N > 20 tokens the persisted results hold the 20 x 20 generated
\* matrix while the response's results and the persisted attention_data hold
\* that matrix zero-padded to N x N; in every other successful request the
\* persisted and the returned results are equal.
C19_PersistedResultsPredatePadding ==
    response.status = 200 =>
        IF LastTask.task_type \in {"sentiment", "attention"} /\ LastTokens > 20
        THEN /\ IsSquare(LastTask.results.attention_weights, 20)
             /\ IsZeroPadded(response.body.results.attention_weights,
                             LastTask.results.attention_weights, LastTokens)
             /\ LastTask.attention_data[1].attention_matrix
                   = response.body.results.attention_weights
        ELSE LastTask.results = response.body.results

\* C19 witness: a sentiment request of more than 20 tokens was answered; its
\* response holds a matrix larger than the persisted one.
C19_Witness ==
    /\ response.status = 200
    /\ LastTask.task_type = "sentiment"
    /\ LastTokens > 20
    /\ Len(response.body.results.attention_weights)
          > Len(LastTask.results.attention_weights)

HasBlankText(data) ==
    \/ "text" \notin DOMAIN data
    \/ \A i \in 1..Len(data.text) : data.text[i] = WS

\* the task type of the request body is none of the six /analyze knows
HasUnknownType(data) ==
    /\ "task_type" \in DOMAIN data
    /\ data.task_type \notin
          {"sentiment", "classification", "ner", "summarization", "qa", "attention"}

\* the processor of the request raises: a question with a null context
ProcessorRaises(data) ==
    /\ ~HasBlankText(data) /\ ~HasUnknownType(data)
    /\ "task_type" \in DOMAIN data /\ data.task_type = "qa"
    /\ "context" \in DOMAIN data /\ data.context = JsonNull

\* the request bodies /analyze rejects or fails on
RefusedRequests ==
    {data \in SessionRequests :
        HasBlankText(data) \/ HasUnknownType(data) \/ ProcessorRaises(data)}

\* the request r answered with that status and left the tables as they are
RefusedWith(r, status) ==
    /\ r.response.status = status
    /\ "error" \in DOMAIN r.response.body
    /\ r.tasks = tasks
    /\ r.metrics = metrics
    /\ ~r.committed

\* C21: a rejected or failed /analyze request leaves persistent state
\* unchanged: on every state of the database a request with an empty or
\* whitespace-only text or an unsupported task_type is answered 400, one
\* whose processor raises is answered 500, neither adds an NLPTask row nor
\* creates or changes a ModelMetrics row; and no step that answers 400 or 500
\* changes a table.
C21_RefusedRequestKeepsTables ==
    /\ [](\A data \in RefusedRequests, processing_time \in 1..MaxTime,
             fault \in Faults :
             RefusedWith(analyze_text(tasks, metrics, data, MaxSeed,
                                      processing_time, fault),
                         IF ProcessorRaises(data) THEN 500 ELSE 400))
    /\ [][response'.status \in {400, 500} =>
              /\ tasks' = tasks
              /\ metrics' = metrics
              /\ updates' = updates]_vars

\* C21 witness: a request was answered 400 by a database that holds a task
\* and a metrics row.
C21_Witness ==
    /\ response.status = 400
    /\ tasks # <<>>
    /\ metrics # <<>>

\* the column holds the error record of a heatmap built from no weights
StoresNoWeightsError(task) ==
    /\ Len(task.attention_data) = 1
    /\ DOMAIN task.attention_data[1] = {"error"}
    /\ task.attention_data[1].error = <<"No attention weights provided">>

\* the column holds a heatmap record: the matrix of the tokens of the text
\* and its statistics
StoresHeatmap(task) ==
    /\ Len(task.attention_data) = 1
    /\ DOMAIN task.attention_data[1] = HeatmapFields
    /\ task.attention_data[1].tokens = Split(task.input_text)
    /\ IsSquare(task.attention_data[1].attention_matrix,
                Len(Split(task.input_text)))

\* what the task type of a task says about its attention data
StoredByType(task) ==
    /\ task.task_type = "classification" => StoresNoWeightsError(task)
    /\ task.task_type \in {"ner", "summarization", "qa"} =>
          task.attention_data = <<>>
    /\ task.task_type \in {"sentiment", "attention"} => StoresHeatmap(task)
    /\ StoresHeatmap(task) => task.task_type \in {"sentiment", "attention"}

\* what the task type of a task says about the answer to a GET for it
AnsweredByType(task, answer) ==
    /\ task.task_type = "classification" =>
          /\ answer.status = 200
          /\ DOMAIN answer.body = {"error"}
          /\ answer.body.error = <<"No attention weights provided">>
    /\ task.task_type \in {"ner", "summarization", "qa"} =>
          /\ answer.status = 404
          /\ DOMAIN answer.body = {"error"}
    /\ task.task_type \in {"sentiment", "attention"} =>
          /\ answer.status = 200
          /\ DOMAIN answer.body = HeatmapFields

\* C22: the attention data stored for a task depends only on its task type:
\* a classification task stores the error record 'No attention weights
\* provided' and a GET /attention_visualization for it answers 200 with that
\* record; ner, summarization and qa tasks store no attention data and the
\* GET answers 404; sentiment and attention tasks, and only they, store a
\* heatmap record.
C22_AttentionDataFollowsTaskType ==
    /\ [](\A i \in 1..Len(tasks) : StoredByType(tasks[i]))
    /\ [][(/\ response' = response
           /\ op' = "get_attention_visualization"
           /\ arg'.task_id \in 1..Len(tasks))
              => AnsweredByType(tasks[arg'.task_id], ret')]_vars

\* C22 witness: the GET for a persisted classification task was answered 200
\* with an error record.
C22_Witness ==
    /\ op = "get_attention_visualization"
    /\ ret.status = 200
    /\ "error" \in DOMAIN ret.body
    /\ arg.task_id \in 1..Len(tasks)
    /\ tasks[arg.task_id].task_type = "classification"

====
